---- MODULE Spec2Model ----
(***************************************************************************)
(* Indexing and query pipeline of the STM32 manual search backend:         *)
(*   python_be/services/index_service.py   IndexService                    *)
(*   python_be/services/search_service.py  SearchService                   *)
(*   python_be/api/routes.py               POST /search                    *)
(*                                                                         *)
(* A Python str is a sequence of one-character strings.                    *)
(***************************************************************************)
EXTENDS Integers, Sequences, FiniteSets, TLC

VARIABLES
    \* ChunkSplitter runs
    text,           \* the page text handed to _split_into_chunks
    chunks,         \* the list _split_into_chunks returned
    phase,          \* "input" before the call, "done" after, "off" in the service
    \* IndexService
    max_chars,      \* IndexService.max_chars
    overlap,        \* IndexService.overlap
    model,          \* IndexService.model: "None" or "loaded"
    pc,             \* per build_index() call: the statement it stands before
    job,            \* per call: all_texts, all_metadatas, all_ids, file_stats
    existing_ids,   \* per call: the ids read by collection.get()
    old_count,      \* per call: old_count
    report,         \* per call: how it ended, the dictionary returned or the
                    \* exception raised
    opened,         \* per call: the paths handed to pymupdf.open, in order
    touched,        \* per call: which of "model" and "store" the call has used
    \* environment
    coll,           \* the persisted Chroma collection
    \* SearchService and POST /search
    search_service, \* whether routes.py has constructed its SearchService
    request,        \* the last SearchRequest served
    response,       \* the last response of POST /search
    \* history of the calls
    n_calls,        \* build_index() calls started
    n_searches,     \* POST /search requests served
    overlapped,     \* per call: another build_index() call ran during this one
    pred,           \* per call: the directory it read, and total_chunks of the call
                    \* just before it if that one read the same and succeeded
    prev_ok         \* the last call to return: its total_chunks and documents

splitVars == <<text, chunks, phase>>
indexVars == <<model, pc, job, existing_ids, old_count, report, opened, touched>>
envVars == <<coll>>
searchVars == <<search_service, request, response>>
histVars == <<n_calls, n_searches, overlapped, pred, prev_ok>>

vars == <<text, chunks, phase, max_chars, overlap, model, pc, job, existing_ids,
          old_count, report, opened, touched, coll, search_service,
          request, response, n_calls, n_searches, overlapped,
          pred, prev_ok>>

----------------------------------------------------------------------------
(* Bounds of the ChunkSplitter runs *)

MaxTextLen == 5
MaxM == 3
MaxO == 2

Alphabet == {"a", "b", " ", "\n", "\f"}

----------------------------------------------------------------------------
(* Python string primitives *)

\* the characters c with c.isspace(), which str.strip() removes; one that has no
\* escape in a TLA+ string is written as its code point
Whitespace ==
    {" ", "\t", "\n", "\r", "\f", "U+000B", "U+001C", "U+001D", "U+001E", "U+001F",
     "U+0085", "U+00A0", "U+1680", "U+2000", "U+2001", "U+2002", "U+2003", "U+2004",
     "U+2005", "U+2006", "U+2007", "U+2008", "U+2009", "U+200A", "U+2028", "U+2029",
     "U+202F", "U+205F", "U+3000"}

\* s[start:] with Python's index normalisation (a negative start counts from the end)
PySliceFrom(s, start) ==
    LET n == Len(s)
        i == IF start < 0 THEN (IF start + n < 0 THEN 0 ELSE start + n)
             ELSE (IF start > n THEN n ELSE start)
    IN  SubSeq(s, i + 1, n)

\* str.strip(): drop the leading and the trailing whitespace
Strip(s) ==
    LET n     == Len(s)
        lead  == Cardinality({i \in 1..n : \A j \in 1..i : s[j] \in Whitespace})
        trail == Cardinality({i \in 1..n : \A j \in i..n : s[n + i - j] \in Whitespace})
    IN  IF lead = n THEN <<>> ELSE SubSeq(s, lead + 1, n - trail)

\* str.split("\n") from position `from`: k newlines give k+1 pieces, empty
\* pieces included
RECURSIVE SplitNL(_, _)
SplitNL(s, from) ==
    LET nl == {i \in from..Len(s) : s[i] = "\n"}
    IN  IF nl = {} THEN <<SubSeq(s, from, Len(s))>>
        ELSE LET m == CHOOSE i \in nl : \A j \in from..(i - 1) : s[j] # "\n"
             IN  <<SubSeq(s, from, m - 1)>> \o SplitNL(s, m + 1)

RECURSIVE StripNonEmpty(_)
StripNonEmpty(pieces) ==
    IF pieces = <<>> THEN <<>>
    ELSE LET p == Strip(Head(pieces))
         IN  IF p # <<>> THEN <<p>> \o StripNonEmpty(Tail(pieces))
             ELSE StripNonEmpty(Tail(pieces))

\* paras = [p.strip() for p in text.split("\n") if p.strip()]
Paras(t) == StripNonEmpty(SplitNL(t, 1))

----------------------------------------------------------------------------
(* IndexService._split_into_chunks *)

\* a loop body that forgets to emit the accumulator when the budget is exceeded
SplitStepDropsChunk(st, p, M, O) ==
    IF Len(st.current) + Len(p) + 1 > M
    THEN [chunks |-> st.chunks,
          current |-> PySliceFrom(st.current, -O) \o <<"\n">> \o p]
    ELSE [chunks |-> st.chunks,
          current |-> IF st.current # <<>> THEN st.current \o <<"\n">> \o p ELSE p]

\* one iteration of "for p in paras"
SplitStep(st, p, M, O) ==
    IF Len(st.current) + Len(p) + 1 > M
    THEN [chunks |-> Append(st.chunks, st.current),
          current |-> PySliceFrom(st.current, -O) \o <<"\n">> \o p]
    ELSE [chunks |-> st.chunks,
          current |-> IF st.current # <<>> THEN st.current \o <<"\n">> \o p ELSE p]

RECURSIVE SplitLoop(_, _, _, _)
SplitLoop(st, paras, M, O) ==
    IF paras = <<>> THEN st
    ELSE SplitLoop(SplitStep(st, Head(paras), M, O), Tail(paras), M, O)

split_into_chunks(t, M, O) ==
    LET st == SplitLoop([chunks |-> <<>>, current |-> <<>>], Paras(t), M, O)
    IN  IF st.current # <<>> THEN Append(st.chunks, st.current) ELSE st.chunks

----------------------------------------------------------------------------
(* More Python primitives: ord, string order, sorted, str(int), basename *)

UpperCase == <<"A", "B", "C", "D", "E", "F", "G", "H", "I", "J", "K", "L", "M",
               "N", "O", "P", "Q", "R", "S", "T", "U", "V", "W", "X", "Y", "Z">>
LowerCase == <<"a", "b", "c", "d", "e", "f", "g", "h", "i", "j", "k", "l", "m",
               "n", "o", "p", "q", "r", "s", "t", "u", "v", "w", "x", "y", "z">>
DecimalDigits == <<"0", "1", "2", "3", "4", "5", "6", "7", "8", "9">>

IndexIn(c, s) == CHOOSE i \in 1..Len(s) : s[i] = c
Elems(s) == {s[i] : i \in 1..Len(s)}

\* ord(c), for the characters of the file names
Ord(c) ==
    CASE c \in Elems(DecimalDigits) -> 47 + IndexIn(c, DecimalDigits)
      [] c \in Elems(UpperCase) -> 64 + IndexIn(c, UpperCase)
      [] c \in Elems(LowerCase) -> 96 + IndexIn(c, LowerCase)
      [] c = " " -> 32
      [] c = "-" -> 45
      [] c = "." -> 46
      [] c = "/" -> 47
      [] c = "_" -> 95

\* p < q on str: the first differing character decides, a proper prefix is smaller
LexLess(p, q) ==
    \E i \in 1..(Len(p) + 1) :
        /\ i <= Len(q)
        /\ \A j \in 1..(i - 1) : p[j] = q[j]
        /\ (i = Len(p) + 1 \/ Ord(p[i]) < Ord(q[i]))

\* sorted(S) for a set of distinct strings
RECURSIVE Sorted(_)
Sorted(S) ==
    IF S = {} THEN <<>>
    ELSE LET m == CHOOSE x \in S : \A y \in S \ {x} : LexLess(x, y)
         IN  <<m>> \o Sorted(S \ {m})

\* str(n) for n >= 0
RECURSIVE Str(_)
Str(n) ==
    IF n < Len(DecimalDigits) THEN <<DecimalDigits[n + 1]>>
    ELSE Str(n \div Len(DecimalDigits)) \o <<DecimalDigits[(n % Len(DecimalDigits)) + 1]>>

\* os.path.basename(path)
basename(path) ==
    LET cut == Len(path) - Cardinality({i \in 1..Len(path) :
                                           \A j \in i..Len(path) : path[Len(path) + i - j] # "/"})
    IN  SubSeq(path, cut + 1, Len(path))

EndsWith(s, suffix) ==
    /\ Len(s) >= Len(suffix)
    /\ SubSeq(s, Len(s) - Len(suffix) + 1, Len(s)) = suffix

----------------------------------------------------------------------------
(* IndexService.__init__ *)

document_dir == <<".", "/", "d", "o", "c", "u", "m", "e", "n", "t", "_", "s", "o", "u", "r", "c", "e">>

DefaultMaxChars == 1500
DefaultOverlap == 200

\* a message is a sequence of string fragments, read as their concatenation
embedding_model_name == <<"sentence-transformers/all-MiniLM-L6-v2">>
collection_name == <<"stm32_manual_embedding">>

----------------------------------------------------------------------------
(* The states build_index() may find ./document_source in.  A file is its name,
   whether pymupdf can open it, and the text of its pages. *)

NameA == <<"a", ".", "p", "d", "f">>
NameB == <<"B", ".", "p", "d", "f">>
NameC == <<"c", ".", "p", "d", "f">>
NameN == <<"n", ".", "t", "x", "t">>

Pdf(name, pages) == [name |-> name, readable |-> TRUE, pages |-> pages]
\* a file pymupdf.open raises FileDataError on
Corrupt(name) == [name |-> name, readable |-> FALSE, pages |-> <<>>]

\* two paragraphs that do not fit one chunk of 1500 characters together
LongPage == [i \in 1..1000 |-> "a"] \o <<"\n">> \o [i \in 1..600 |-> "b"]

PageAB == <<"a", "b", "\n", " ", "b", " ">>
PageBlank == <<" ", "\n">>
PageA == <<"a">>
PageB == <<"b">>

Directories ==
    <<
      \* the directory does not exist
      [exists |-> FALSE, files |-> {}],
      \* no PDF file
      [exists |-> TRUE, files |-> {Pdf(NameN, <<PageAB>>)}],
      \* one file: a page that splits into two chunks, a blank page, a short page
      [exists |-> TRUE, files |-> {Pdf(NameA, <<LongPage, PageBlank, PageB>>)}],
      \* "B.pdf" sorts before "a.pdf"
      [exists |-> TRUE, files |-> {Pdf(NameA, <<PageAB, PageBlank>>),
                                   Pdf(NameB, <<PageB>>),
                                   Pdf(NameN, <<PageAB>>)}],
      \* the second file in sorted order cannot be opened
      [exists |-> TRUE, files |-> {Pdf(NameB, <<PageB>>),
                                   Corrupt(NameA),
                                   Pdf(NameC, <<PageA>>)}],
      \* a PDF without text
      [exists |-> TRUE, files |-> {Pdf(NameA, <<PageBlank>>)}]
    >>

PathOf(name) == document_dir \o <<"/">> \o name

\* glob.glob(os.path.join(document_dir, "*.pdf")): "*" matches no leading dot
Glob(d) ==
    {PathOf(f.name) : f \in {g \in d.files :
        /\ EndsWith(g.name, <<".", "p", "d", "f">>)
        /\ g.name[1] # "."}}

FileAt(d, path) == CHOOSE f \in d.files : PathOf(f.name) = path

----------------------------------------------------------------------------
(* IndexService._load_and_chunk_pdf *)

RECURSIVE PageChunks(_, _, _, _, _)
PageChunks(pages, i, src_name, M, O) ==
    IF i > Len(pages) THEN <<>>
    ELSE LET cs == split_into_chunks(pages[i], M, O)
         IN  [k \in 1..Len(cs) |-> [page |-> i, text |-> cs[k], source |-> src_name]]
             \o PageChunks(pages, i + 1, src_name, M, O)

\* what is raised is an Exception, or a BaseException that is none
\* (KeyboardInterrupt, SystemExit, the panic of a native extension)
ExcKinds == {"Exception", "BaseException"}

\* an "except Exception" clause that catches nothing
CaughtNever(kind) == FALSE

\* "except Exception as e" (lines 115, 132, 146, 189; routes.py line 141)
Caught(kind) == kind = "Exception"

\* pymupdf.open raises FileDataError on a file it cannot read, and when
\* `interrupted` something that is no Exception; otherwise the result is
\* (all_chunks, len(pages))
load_and_chunk_pdf(d, pdf_path, M, O, interrupted) ==
    LET f == FileAt(d, pdf_path)
    IN  IF interrupted
        THEN [raised |-> TRUE, kind |-> "BaseException", exc |-> <<"interrupted">>]
        ELSE IF ~f.readable
        THEN [raised |-> TRUE, kind |-> "Exception", exc |-> <<"Failed to open file">>]
        ELSE [raised |-> FALSE,
              chunks |-> PageChunks(f.pages, 1, basename(pdf_path), M, O),
              pages  |-> Len(f.pages)]

----------------------------------------------------------------------------
(* IndexService.build_index, lines 73-127: up to the collected chunks *)

ChunkId(n) == <<"c", "h", "u", "n", "k", "_">> \o Str(n)

ReportNoDirectory ==
    [success |-> FALSE,
     error   |-> <<"Document directory '">> \o document_dir \o <<"' not found.">>,
     message |-> <<"Please create the directory and add PDF files.">>]

ReportNoPdf ==
    [success |-> FALSE,
     error   |-> <<"No PDF files found in '">> \o document_dir \o <<"'.">>,
     message |-> <<"Please add PDF files to the document_source directory.">>]

ReportExtraction(pdf_path, exc, file_stats) ==
    [success |-> FALSE,
     error   |-> <<"Error processing ">> \o basename(pdf_path) \o <<": ">> \o exc,
     files_processed |-> file_stats]

ReportNoChunks ==
    [success |-> FALSE,
     error   |-> <<"No text chunks collected from PDFs.">>,
     message |-> <<"PDFs may be empty or unreadable.">>]

FirstChunkIdx == 0

\* lines 99-114 with r what _load_and_chunk_pdf returned: the chunks of the file
\* are appended, numbered from `first` on
FileCollected(st, pdf_path, r, first) ==
    [st EXCEPT
        !.opened = Append(@, pdf_path),
        !.file_stats = Append(@, [filename |-> basename(pdf_path),
                                  pages |-> r.pages, chunks |-> Len(r.chunks)]),
        !.all_texts = @ \o [k \in 1..Len(r.chunks) |-> r.chunks[k].text],
        !.all_metadatas = @ \o [k \in 1..Len(r.chunks) |->
            [page |-> r.chunks[k].page, source |-> r.chunks[k].source,
             file_path |-> pdf_path]],
        !.all_ids = @ \o [k \in 1..Len(r.chunks) |-> ChunkId(first + k - 1)],
        !.chunk_idx = first + Len(r.chunks)]

\* a loop body that swallows the extraction error and goes on to the next file
FileLoadedSkipsBadFile(st, pdf_path, r) ==
    IF r.raised
    THEN [st EXCEPT !.opened = Append(@, pdf_path)]
    ELSE FileCollected(st, pdf_path, r, st.chunk_idx)

\* lines 98-120, the try block and its handler, with r what _load_and_chunk_pdf
\* did; `opened` records the paths handed to pymupdf.open
FileLoaded(st, pdf_path, r) ==
    IF r.raised
    THEN [st EXCEPT
            !.opened = Append(@, pdf_path),
            !.returned = IF Caught(r.kind)
                         THEN <<ReportExtraction(pdf_path, r.exc, st.file_stats)>>
                         ELSE <<[raised |-> r.kind]>>]
    ELSE FileCollected(st, pdf_path, r, st.chunk_idx)

\* one iteration of "for pdf_path in pdf_files" (lines 97-120)
\* intr is the position of the file whose opening is interrupted, 0 for none
CollectFile(st, d, pdf_path, M, O, intr) ==
    FileLoaded(st, pdf_path,
               load_and_chunk_pdf(d, pdf_path, M, O, intr = Len(st.opened) + 1))

RECURSIVE CollectLoop(_, _, _, _, _, _)
CollectLoop(st, d, pdf_files, M, O, intr) ==
    IF pdf_files = <<>> \/ st.returned # <<>> THEN st
    ELSE CollectLoop(CollectFile(st, d, Head(pdf_files), M, O, intr), d,
                     Tail(pdf_files), M, O, intr)

NoJob ==
    [all_texts |-> <<>>, all_metadatas |-> <<>>, all_ids |-> <<>>, file_stats |-> <<>>]

\* lines 73-88 and 122-127, with pdf_files the sorted glob and st the state the
\* loop over the files ended in: `returned` holds the report when the call
\* returns here (or the exception that leaves it), and is empty when it goes on
\* to the embedding model
Collected(d, pdf_files, st) ==
    IF ~d.exists THEN [returned |-> <<ReportNoDirectory>>, job |-> NoJob, opened |-> <<>>]
    ELSE IF pdf_files = <<>>
    THEN [returned |-> <<ReportNoPdf>>, job |-> NoJob, opened |-> <<>>]
    ELSE IF st.returned # <<>>
    THEN [returned |-> st.returned, job |-> NoJob, opened |-> st.opened]
    ELSE IF st.all_texts = <<>>
    THEN [returned |-> <<ReportNoChunks>>, job |-> NoJob, opened |-> st.opened]
    ELSE [returned |-> <<>>,
          job |-> [all_texts |-> st.all_texts, all_metadatas |-> st.all_metadatas,
                   all_ids |-> st.all_ids, file_stats |-> st.file_stats],
          opened |-> st.opened]

CollectStart ==
    [all_texts |-> <<>>, all_metadatas |-> <<>>, all_ids |-> <<>>, file_stats |-> <<>>,
     chunk_idx |-> FirstChunkIdx, opened |-> <<>>, returned |-> <<>>]

CollectFrom(d, pdf_files, M, O, intr) ==
    Collected(d, pdf_files, CollectLoop(CollectStart, d, pdf_files, M, O, intr))

\* lines 73-127 on directory d
Collect(d, M, O, intr) == CollectFrom(d, Sorted(Glob(d)), M, O, intr)

\* the positions at which the opening of a file of d can be interrupted: those
\* of the files the loop gets to; 0 stands for no interruption
Interrupts(d) ==
    IF ~d.exists THEN {0}
    ELSE {0} \cup {i \in 1..Len(Sorted(Glob(d))) :
                     \A j \in 1..(i - 1) : FileAt(d, Sorted(Glob(d))[j]).readable}

----------------------------------------------------------------------------
(* The embedding model and the Chroma collection, as the services use them *)

CountOf(t, c) == Cardinality({i \in 1..Len(t) : t[i] = c})

\* SentenceTransformer.encode: one fixed-dimension vector per text.  The model
\* is a collaborator; here a text is embedded as its counts of "a" and of "b".
Encode(t) == <<CountOf(t, "a"), CountOf(t, "b")>>

\* the distance the collection ranks by (squared L2, Chroma's default)
Distance(u, v) ==
    (u[1] - v[1]) * (u[1] - v[1]) + (u[2] - v[2]) * (u[2] - v[2])

\* collection.count()
StoreCount(c) == Cardinality(c.entries)

\* collection.get()["ids"]
StoreIds(c) == {e.id : e \in c.entries}

\* collection.delete(ids=ids)
StoreDelete(c, ids) == [c EXCEPT !.entries = {e \in @ : e.id \notin ids}]

\* collection.add rejects a batch that names an id twice
HasDuplicates(ids) == \E i, j \in 1..Len(ids) : i < j /\ ids[i] = ids[j]

\* collection.add(ids, documents, metadatas, embeddings): an id the collection
\* already holds keeps its old entry
StoreAdd(c, ids, documents, metadatas, embeddings) ==
    [c EXCEPT !.entries = @ \cup
        {[id |-> ids[i], document |-> documents[i], metadata |-> metadatas[i],
          embedding |-> embeddings[i]] : i \in {k \in 1..Len(ids) : ids[k] \notin StoreIds(c)}}]

\* collection.query(query_embeddings=[qe], n_results=k, include=[...]): the
\* possible answers, each the min(k, count) nearest entries by ascending distance
StoreQuery(c, qe, k) ==
    LET n == IF k < StoreCount(c) THEN k ELSE StoreCount(c)
        ranked == {s \in [1..n -> c.entries] :
                     /\ \A i, j \in 1..n : i < j => s[i] # s[j]
                     /\ \A i, j \in 1..n :
                          i < j => Distance(qe, s[i].embedding) <= Distance(qe, s[j].embedding)
                     /\ \A e \in c.entries :
                          (\A i \in 1..n : s[i] # e) =>
                              \A i \in 1..n :
                                  Distance(qe, s[i].embedding) <= Distance(qe, e.embedding)}
    IN  {[ids       |-> <<[i \in 1..n |-> s[i].id]>>,
          documents |-> <<[i \in 1..n |-> s[i].document]>>,
          metadatas |-> <<[i \in 1..n |-> s[i].metadata]>>,
          distances |-> <<[i \in 1..n |-> Distance(qe, s[i].embedding)]>>] : s \in ranked}

----------------------------------------------------------------------------
(* IndexService.build_index, lines 129-194 *)

ReportModelLoad(exc) ==
    [success |-> FALSE,
     error   |-> <<"Failed to load embedding model: ">> \o exc]

ReportEncode(exc, file_stats) ==
    [success |-> FALSE,
     error   |-> <<"Failed to encode documents: ">> \o exc,
     files_processed |-> file_stats]

ReportStore(exc, file_stats) ==
    [success |-> FALSE,
     error   |-> <<"Failed to update ChromaDB collection: ">> \o exc,
     files_processed |-> file_stats]

\* a report whose previous_chunks is never set from the count before the delete
ReportSuccessNoPrevious(new_count, old, file_stats) ==
    [success |-> TRUE,
     message |-> <<"Index built successfully">>,
     total_chunks |-> new_count,
     previous_chunks |-> 0,
     files_processed |-> file_stats,
     embedding_model |-> embedding_model_name,
     collection_name |-> collection_name]

ReportSuccess(new_count, old, file_stats) ==
    [success |-> TRUE,
     message |-> <<"Index built successfully">>,
     total_chunks |-> new_count,
     previous_chunks |-> old,
     files_processed |-> file_stats,
     embedding_model |-> embedding_model_name,
     collection_name |-> collection_name]

----------------------------------------------------------------------------
(* The service: concurrent build_index() calls and POST /search *)

Builders == {"b1", "b2"}

MaxCalls == 2
MaxSearches == 1

KMin == 1
KMax == 20
Ks == {KMin, 2, 3, KMax}
Queries == {<<"a">>, <<"b", "b">>}

NoReport == [pending |-> TRUE]

\* the call is not running: never started, returned, or left by an exception
Over == {"idle", "done", "raised"}
InCall(b) == pc[b] \notin Over
StorePcs == {"open_store", "count", "get", "delete", "add", "count_new"}

NoCollection == [created |-> FALSE, entries |-> {}]

AddJob(c, j) ==
    StoreAdd(c, j.all_ids, j.all_texts, j.all_metadatas,
             [i \in 1..Len(j.all_texts) |-> Encode(j.all_texts[i])])

\* what build_index leaves in an empty collection when it builds directory d
Built(d) ==
    AddJob([created |-> TRUE, entries |-> {}], Collect(d, DefaultMaxChars, DefaultOverlap, 0).job)

\* the collection persists across restarts: the service starts without one, or
\* with the one an earlier build left behind
InitialCollections ==
    {NoCollection} \cup {Built(Directories[v]) : v \in 1..Len(Directories)}

\* the service after construction, before any request
ServiceInit ==
    /\ model = "None"
    /\ pc = [b \in Builders |-> "idle"]
    /\ job = [b \in Builders |-> NoJob]
    /\ existing_ids = [b \in Builders |-> {}]
    /\ old_count = [b \in Builders |-> 0]
    /\ report = [b \in Builders |-> NoReport]
    /\ opened = [b \in Builders |-> <<>>]
    /\ touched = [b \in Builders |-> {}]
    /\ search_service = FALSE
    /\ request = [query |-> <<>>, k |-> 0, raises |-> "None"]
    /\ response = [status |-> 0]
    /\ n_calls = 0
    /\ n_searches = 0
    /\ overlapped = [b \in Builders |-> FALSE]
    /\ pred = [b \in Builders |-> [docs |-> 0, intr |-> 0, prior |-> <<>>]]
    /\ prev_ok = <<>>

Init ==
    /\ text = <<>>
    /\ chunks = <<>>
    /\ phase = "off"
    /\ max_chars = DefaultMaxChars
    /\ overlap = DefaultOverlap
    /\ coll \in InitialCollections
    /\ ServiceInit

\* build_index() is over with outcome rep, the dictionary it returns or the
\* exception that leaves it: its locals are gone, and the call is now the last
\* one to have ended
Ends(b, rep) ==
    /\ pc' = [pc EXCEPT ![b] = IF "raised" \in DOMAIN rep THEN "raised" ELSE "done"]
    /\ report' = [report EXCEPT ![b] = rep]
    /\ job' = [job EXCEPT ![b] = NoJob]
    /\ existing_ids' = [existing_ids EXCEPT ![b] = {}]
    /\ old_count' = [old_count EXCEPT ![b] = 0]
    /\ prev_ok' = IF "success" \in DOMAIN rep /\ rep.success /\ ~overlapped[b]
                  THEN <<[total |-> rep.total_chunks, docs |-> pred[b].docs]>>
                  ELSE <<>>

\* an exception of this kind is raised inside a try block whose handler returns
\* rep: the handler runs if it catches the kind, else the exception leaves
\* build_index
Raise(b, kind, rep) == Ends(b, IF Caught(kind) THEN rep ELSE [raised |-> kind])

\* a build that clears the collection before it looks at the documents
CallClearsCollection(b) ==
    /\ pc[b] \in Over
    /\ n_calls < MaxCalls
    /\ n_calls' = n_calls + 1
    /\ coll' = StoreDelete(coll, StoreIds(coll))
    /\ pc' = [pc EXCEPT ![b] = "collect"]
    /\ report' = [report EXCEPT ![b] = NoReport]
    /\ opened' = [opened EXCEPT ![b] = <<>>]
    /\ touched' = [touched EXCEPT ![b] = {}]
    /\ overlapped' = [c \in Builders |->
                         IF c = b THEN \E o \in Builders \ {b} : InCall(o)
                         ELSE overlapped[c] \/ InCall(c)]
    /\ pred' = [pred EXCEPT ![b] =
                  [docs |-> 0, intr |-> 0,
                   prior |-> IF (\A o \in Builders \ {b} : ~InCall(o)) THEN prev_ok
                             ELSE <<>>]]
    /\ UNCHANGED <<splitVars, max_chars, overlap, model, job, existing_ids, old_count,
                   searchVars, n_searches, prev_ok>>

\* build_index() is called (line 66)
Call(b) ==
    /\ pc[b] \in Over
    /\ n_calls < MaxCalls
    /\ n_calls' = n_calls + 1
    /\ pc' = [pc EXCEPT ![b] = "collect"]
    /\ report' = [report EXCEPT ![b] = NoReport]
    /\ opened' = [opened EXCEPT ![b] = <<>>]
    /\ touched' = [touched EXCEPT ![b] = {}]
    /\ overlapped' = [c \in Builders |->
                         IF c = b THEN \E o \in Builders \ {b} : InCall(o)
                         ELSE overlapped[c] \/ InCall(c)]
    /\ pred' = [pred EXCEPT ![b] =
                  [docs |-> 0, intr |-> 0,
                   prior |-> IF (\A o \in Builders \ {b} : ~InCall(o)) THEN prev_ok
                             ELSE <<>>]]
    /\ UNCHANGED <<splitVars, max_chars, overlap, model, job, existing_ids, old_count,
                   envVars, searchVars, n_searches, prev_ok>>

\* lines 73-127 with r what they collected from directory v, the opening of
\* file intr interrupted
CollectedWith(b, v, intr, r) ==
    /\ opened' = [opened EXCEPT ![b] = r.opened]
    /\ pred' = [pred EXCEPT ![b] =
                  [docs |-> v, intr |-> intr,
                   prior |-> IF @.prior # <<>> /\ @.prior[1].docs = v THEN @.prior
                             ELSE <<>>]]
    /\ IF r.returned # <<>>
       THEN Ends(b, r.returned[1])
       ELSE /\ pc' = [pc EXCEPT ![b] = "load_model"]
            /\ job' = [job EXCEPT ![b] = r.job]
            /\ UNCHANGED <<existing_ids, old_count, report, prev_ok>>

\* lines 73-127: the call finds ./document_source in one of its states and
\* collects the chunks of its PDF files
CollectChunks(b) ==
    /\ pc[b] = "collect"
    /\ \E v \in 1..Len(Directories) :
          \E intr \in Interrupts(Directories[v]) :
             CollectedWith(b, v, intr, Collect(Directories[v], max_chars, overlap, intr))
    /\ UNCHANGED <<splitVars, max_chars, overlap, model, touched, envVars, searchVars,
                   n_calls, n_searches, overlapped>>

\* lines 131, 24: _load_model tests self.model
LoadModel(b) ==
    /\ pc[b] = "load_model"
    /\ touched' = [touched EXCEPT ![b] = @ \cup {"model"}]
    /\ pc' = [pc EXCEPT ![b] = IF model = "None" THEN "construct" ELSE "encode"]
    /\ UNCHANGED <<splitVars, max_chars, overlap, model, job, existing_ids, old_count,
                   report, opened, envVars, searchVars, histVars>>

\* line 25: SentenceTransformer(...) returns and self.model is set, or it raises
\* (lines 132-136)
Construct(b) ==
    /\ pc[b] = "construct"
    /\ \/ /\ model' = "loaded"
          /\ pc' = [pc EXCEPT ![b] = "encode"]
          /\ UNCHANGED <<job, existing_ids, old_count, report, prev_ok>>
       \/ /\ \E kind \in ExcKinds :
                Raise(b, kind, ReportModelLoad(<<"cannot load the model">>))
          /\ UNCHANGED model
    /\ UNCHANGED <<splitVars, max_chars, overlap, opened, touched, envVars, searchVars,
                   n_calls, n_searches, overlapped, pred>>

\* lines 138-151: model.encode returns the embeddings, or it raises
EncodeChunks(b) ==
    /\ pc[b] = "encode"
    /\ \/ /\ pc' = [pc EXCEPT ![b] = "open_store"]
          /\ UNCHANGED <<job, existing_ids, old_count, report, prev_ok>>
       \/ \E kind \in ExcKinds :
             Raise(b, kind, ReportEncode(<<"cannot encode">>, job[b].file_stats))
    /\ UNCHANGED <<splitVars, max_chars, overlap, model, opened, touched, envVars,
                   searchVars, n_calls, n_searches, overlapped, pred>>

\* lines 155-159: PersistentClient(path); get_or_create_collection creates the
\* collection unless it exists
OpenStore(b) ==
    /\ pc[b] = "open_store"
    /\ coll' = [coll EXCEPT !.created = TRUE]
    /\ touched' = [touched EXCEPT ![b] = @ \cup {"store"}]
    /\ pc' = [pc EXCEPT ![b] = "count"]
    /\ UNCHANGED <<splitVars, max_chars, overlap, model, job, existing_ids, old_count,
                   report, opened, searchVars, histVars>>

\* lines 162-163: old_count = 0; if collection.count() > 0
CountOld(b) ==
    /\ pc[b] = "count"
    /\ old_count' = [old_count EXCEPT ![b] = 0]
    /\ pc' = [pc EXCEPT ![b] = IF StoreCount(coll) > 0 THEN "get" ELSE "add"]
    /\ UNCHANGED <<splitVars, max_chars, overlap, model, job, existing_ids, report,
                   opened, touched, envVars, searchVars, histVars>>

\* lines 164-167: existing_ids = collection.get()["ids"]
GetExisting(b) ==
    /\ pc[b] = "get"
    /\ existing_ids' = [existing_ids EXCEPT ![b] = StoreIds(coll)]
    /\ IF StoreIds(coll) # {}
       THEN /\ old_count' = [old_count EXCEPT ![b] = Cardinality(StoreIds(coll))]
            /\ pc' = [pc EXCEPT ![b] = "delete"]
       ELSE /\ pc' = [pc EXCEPT ![b] = "add"]
            /\ UNCHANGED old_count
    /\ UNCHANGED <<splitVars, max_chars, overlap, model, job, report, opened, touched,
                   envVars, searchVars, histVars>>

\* line 168: collection.delete(ids=existing_ids)
DeleteOld(b) ==
    /\ pc[b] = "delete"
    /\ coll' = StoreDelete(coll, existing_ids[b])
    /\ pc' = [pc EXCEPT ![b] = "add"]
    /\ UNCHANGED <<splitVars, max_chars, overlap, model, job, existing_ids, old_count,
                   report, opened, touched, searchVars, histVars>>

\* lines 171-176: collection.add(...)
AddNew(b) ==
    /\ pc[b] = "add"
    /\ IF HasDuplicates(job[b].all_ids)
       THEN /\ Raise(b, "Exception", ReportStore(<<"duplicate ids">>, job[b].file_stats))
            /\ UNCHANGED <<coll, touched>>
       ELSE /\ coll' = AddJob(coll, job[b])
            /\ touched' = [touched EXCEPT ![b] = @ \cup {"add"}]
            /\ pc' = [pc EXCEPT ![b] = "count_new"]
            /\ UNCHANGED <<report, prev_ok, job, existing_ids, old_count>>
    /\ UNCHANGED <<splitVars, max_chars, overlap, model, opened, searchVars,
                   n_calls, n_searches, overlapped, pred>>

\* lines 178-188: new_count = collection.count(); return the report
CountNew(b) ==
    /\ pc[b] = "count_new"
    /\ Ends(b, ReportSuccess(StoreCount(coll), old_count[b], job[b].file_stats))
    /\ UNCHANGED <<splitVars, max_chars, overlap, model, opened, touched, envVars,
                   searchVars, n_calls, n_searches, overlapped, pred>>

\* lines 153-194: a call to the store raises inside the try block
StoreRaises(b) ==
    /\ pc[b] \in StorePcs
    /\ touched' = [touched EXCEPT ![b] = @ \cup {"store"}]
    /\ \E kind \in ExcKinds :
          Raise(b, kind, ReportStore(<<"store error">>, job[b].file_stats))
    /\ UNCHANGED <<splitVars, max_chars, overlap, model, opened, envVars, searchVars,
                   n_calls, n_searches, overlapped, pred>>

----------------------------------------------------------------------------
(* SearchService and the POST /search route *)

\* SearchService.search: the dictionary the collection answers with, or the
\* exception the store raises
search(c, query, k, raises) ==
    IF raises = "None" THEN StoreQuery(c, Encode(query), k)
    ELSE {[raised |-> <<"store error">>, kind |-> raises]}

\* dict.get(key, default)
DictGet(m, key, default) == IF key \in DOMAIN m THEN m[key] ELSE default

MinOf(S) == CHOOSE x \in S : \A y \in S : x <= y

\* a route that leaves out the last hit
search_manual_drops_last(query, results) ==
    IF "raised" \in DOMAIN results
    THEN IF Caught(results.kind)
         THEN [status |-> 500, detail |-> <<"Search error: ">> \o results.raised]
         ELSE [raised |-> results.kind]
    ELSE LET docs == results.documents[1]
             n    == IF Len(docs) > 0 THEN Len(docs) - 1 ELSE 0
             search_results ==
                 [i \in 1..n |->
                     [id     |-> results.ids[1][i],
                      text   |-> docs[i],
                      page   |-> DictGet(results.metadatas[1][i], "page", 0),
                      source |-> DictGet(results.metadatas[1][i], "source", <<>>),
                      score  |-> results.distances[1][i]]]
         IN  [status |-> 200, query |-> query, results |-> search_results,
              total_results |-> Len(search_results)]

\* a route that reads the first hit without looking whether there is one
search_manual_reads_first(query, results) ==
    IF "raised" \in DOMAIN results
    THEN IF Caught(results.kind)
         THEN [status |-> 500, detail |-> <<"Search error: ">> \o results.raised]
         ELSE [raised |-> results.kind]
    ELSE IF Len(results.documents[1]) = 0
    THEN [status |-> 500, detail |-> <<"Search error: ">> \o <<"list index out of range">>]
    ELSE LET docs == results.documents[1]
             search_results ==
                 [i \in 1..Len(docs) |->
                     [id     |-> results.ids[1][i],
                      text   |-> docs[i],
                      page   |-> DictGet(results.metadatas[1][i], "page", 0),
                      source |-> DictGet(results.metadatas[1][i], "source", <<>>),
                      score  |-> results.distances[1][i]]]
         IN  [status |-> 200, query |-> query, results |-> search_results,
              total_results |-> Len(search_results)]

\* routes.search_manual, lines 115-142, given what search_service.search did:
\* the response, or the exception that leaves the route
search_manual(query, results) ==
    IF "raised" \in DOMAIN results
    THEN IF Caught(results.kind)
         THEN [status |-> 500, detail |-> <<"Search error: ">> \o results.raised]
         ELSE [raised |-> results.kind]
    ELSE LET docs  == results.documents
             ids   == IF "ids" \in DOMAIN results THEN DictGet(results, "ids", << <<>> >>)[1]
                      ELSE [i \in 1..Len(docs[1]) |-> "None"]
             \* zip stops at the shortest list
             n     == MinOf({Len(ids), Len(docs[1]), Len(results.metadatas[1]),
                             Len(results.distances[1])})
             search_results ==
                 IF docs # <<>> /\ Len(docs[1]) > 0
                 THEN [i \in 1..n |->
                         [id     |-> ids[i],
                          text   |-> docs[1][i],
                          page   |-> DictGet(results.metadatas[1][i], "page", 0),
                          source |-> DictGet(results.metadatas[1][i], "source", <<>>),
                          score  |-> results.distances[1][i]]]
                 ELSE <<>>
         IN  [status |-> 200, query |-> query, results |-> search_results,
              total_results |-> Len(search_results)]

\* routes.py line 7, SearchService.__init__: get_collection raises unless the
\* collection exists, and then the routes module is not loaded
StartSearchService ==
    /\ ~search_service
    /\ coll.created
    /\ search_service' = TRUE
    /\ UNCHANGED <<splitVars, max_chars, overlap, indexVars, envVars, request, response,
                   histVars>>

\* POST /search with a request that passed validation (query of length >= 1,
\* 1 <= k <= 20)
PostSearch ==
    /\ search_service
    /\ n_searches < MaxSearches
    /\ n_searches' = n_searches + 1
    /\ \E q \in Queries, k \in Ks, raises \in {"None"} \cup ExcKinds :
          /\ Len(q) >= 1 /\ k >= KMin /\ k <= KMax
          /\ request' = [query |-> q, k |-> k, raises |-> raises]
          /\ \E results \in search(coll, q, k, raises) :
                response' = search_manual(q, results)
    /\ UNCHANGED <<splitVars, max_chars, overlap, indexVars, envVars, search_service,
                   n_calls, overlapped, pred, prev_ok>>

BuildStep(b) ==
    \/ Call(b)
    \/ CollectChunks(b)
    \/ LoadModel(b)
    \/ Construct(b)
    \/ EncodeChunks(b)
    \/ OpenStore(b)
    \/ CountOld(b)
    \/ GetExisting(b)
    \/ DeleteOld(b)
    \/ AddNew(b)
    \/ CountNew(b)
    \/ StoreRaises(b)

\* the index service under concurrent build requests
Next ==
    \E b \in Builders : BuildStep(b)

Spec == Init /\ [][Next]_vars

\* the search service next to one index builder
SearchNext ==
    \/ BuildStep("b1")
    \/ StartSearchService
    \/ PostSearch

SearchSpec == Init /\ [][SearchNext]_vars

----------------------------------------------------------------------------
(* ChunkSplitter runs: every text, budget and overlap within the bounds *)

Texts == UNION {[1..n -> Alphabet] : n \in 0..MaxTextLen}

SplitInit ==
    /\ text \in Texts
    /\ max_chars \in 1..MaxM
    /\ overlap \in 0..MaxO
    /\ chunks = <<>>
    /\ phase = "input"
    /\ coll = NoCollection
    /\ ServiceInit

SplitCall ==
    /\ phase = "input"
    /\ chunks' = split_into_chunks(text, max_chars, overlap)
    /\ phase' = "done"
    /\ UNCHANGED <<text, max_chars, overlap, indexVars, envVars, searchVars, histVars>>

SplitNext == SplitCall

SplitSpec == SplitInit /\ [][SplitNext]_vars

----------------------------------------------------------------------------
(* Claims about the ChunkSplitter *)

\* u occurs in s as a contiguous substring
IsSubstring(u, s) ==
    \E i \in 0..(Len(s) - Len(u)) : SubSeq(s, i + 1, i + Len(u)) = u

\* C4: a page text that is one paragraph longer than max_chars yields exactly one
\* chunk, the trimmed paragraph; an empty or whitespace-only text yields no chunk;
\* no chunk is ever the empty string.
C4_OversizedSingleChunk ==
    phase = "done" =>
        LET paras == Paras(text) IN
        /\ (Len(paras) = 1 /\ Len(paras[1]) > max_chars) => chunks = <<paras[1]>>
        /\ paras = <<>> => chunks = <<>>
        /\ \A i \in 1..Len(chunks) : chunks[i] # <<>>

\* C5: every paragraph that is non-empty after trimming is a contiguous substring
\* of at least one returned chunk.
C5_NoParagraphDropped ==
    phase = "done" =>
        \A i \in 1..Len(Paras(text)) :
            \E j \in 1..Len(chunks) : IsSubstring(Paras(text)[i], chunks[j])

\* a run in which a later paragraph overflowed the budget, so a chunk was emitted
\* inside the loop and the paragraphs are spread over several chunks
C5_Witness ==
    /\ phase = "done"
    /\ Len(Paras(text)) >= 2
    /\ Len(chunks) >= 3
    /\ Paras(text)[1] # Paras(text)[2]
    /\ chunks[1] # <<>>

----------------------------------------------------------------------------
(* Claims about IndexService.build_index *)

\* the sorted PDF paths of every state of the directory
SortedFiles == [v \in 1..Len(Directories) |-> Sorted(Glob(Directories[v]))]

\* the sorted PDF paths of the directory call b read
FilesRead(b) == SortedFiles[pred[b].docs]

\* the positions in FilesRead(b) of the files pymupdf cannot open
Unreadable(b) ==
    {i \in 1..Len(FilesRead(b)) :
        ~FileAt(Directories[pred[b].docs], FilesRead(b)[i]).readable}

\* the positions in FilesRead(b) of the files whose extraction fails if the
\* loop gets to them
FailsAt(b) == Unreadable(b) \cup ({pred[b].intr} \ {0})

\* a call that has returned a report of failure
Failed(b) ==
    /\ pc[b] = "done"
    /\ "success" \in DOMAIN report[b]
    /\ report[b].success = FALSE

\* a call that has returned a report of success
Succeeded(b) ==
    /\ pc[b] = "done"
    /\ "success" \in DOMAIN report[b]
    /\ report[b].success = TRUE

\* C1: when build_index() runs twice in succession on the same documents, nothing
\* else touching the collection, and both calls succeed, the second call reports
\* the total_chunks of the first, and its previous_chunks is that number too.
C1_RebuildSameCounts ==
    \A b \in Builders :
        (Succeeded(b) /\ ~overlapped[b] /\ pred[b].prior # <<>>) =>
            /\ report[b].total_chunks = pred[b].prior[1].total
            /\ report[b].previous_chunks = pred[b].prior[1].total

\* the second of two successive builds of the same documents has returned
C1_Witness ==
    \E b \in Builders :
        /\ Succeeded(b) /\ ~overlapped[b] /\ pred[b].prior # <<>>
        /\ report[b].previous_chunks = 3
        /\ n_calls = 2

\* C2: a build_index() call that fails before the collection-replace step
\* (no directory, no PDF, an extraction error, no chunks, model load, encoding)
\* leaves the collection as it was: no step the call takes before it reaches the
\* store changes an entry, and a call that ended without using the store has
\* taken no other step.
C2_EarlyFailureKeepsCollection ==
    [][\A b \in Builders :
          /\ (pc'[b] # pc[b] /\ pc[b] \notin StorePcs) => coll' = coll
          /\ (pc'[b] \in StorePcs \ {"open_store"}) => "store" \in touched'[b]]_vars

\* one call has failed for want of a PDF and one in the encoding, and the
\* collection still holds the entries it started with
C2_Witness ==
    /\ Failed("b1") /\ report["b1"] = ReportNoPdf
    /\ Failed("b2") /\ report["b2"].error[1] = "Failed to encode documents: "
    /\ touched["b2"] = {"model"}
    /\ StoreCount(coll) = 3

\* the dictionary of a report: success, and with success False a non-empty error
WellFormed(rep) ==
    /\ DOMAIN rep \subseteq
           {"success", "error", "message", "files_processed", "total_chunks",
            "previous_chunks", "embedding_model", "collection_name"}
    /\ "success" \in DOMAIN rep
    /\ rep.success \in BOOLEAN
    /\ ~rep.success =>
           /\ "error" \in DOMAIN rep
           /\ rep.error # <<>>
           /\ \A i \in 1..Len(rep.error) : rep.error[i] # ""

\* C3: build_index() never raises: whatever stage fails, a call that is over has
\* returned a report; the report of a failure carries a non-empty error, and a
\* report of success is returned only after the insert into the collection.
C3_NeverRaises ==
    \A b \in Builders :
        pc[b] \in {"done", "raised"} =>
            /\ pc[b] = "done"
            /\ WellFormed(report[b])
            /\ report[b].success => "add" \in touched[b]

\* C3 as amended: build_index() raises nothing that is an Exception: a stage
\* that fails with one ends the call with a report of failure with a non-empty
\* error, only an exception that is no Exception leaves the call, and a report
\* of success is returned only after the insert into the collection.
C3_ExceptionsBecomeReports ==
    \A b \in Builders :
        /\ pc[b] = "raised" => report[b] = [raised |-> "BaseException"]
        /\ pc[b] = "done" =>
              /\ WellFormed(report[b])
              /\ report[b].success => "add" \in touched[b]

\* the encoding of one call failed with an Exception and the call returned the
\* report; the store of another raised what is no Exception, after its insert
C3_Witness ==
    /\ Failed("b1") /\ report["b1"].error[1] = "Failed to encode documents: "
    /\ pc["b2"] = "raised" /\ report["b2"] = [raised |-> "BaseException"]
    /\ "add" \in touched["b2"]

\* what one build pass over directory v puts into the collection
BuildPass(v) == Built(Directories[v]).entries

\* C8: whatever the interleaving of build_index() calls, the collection is
\* empty or holds exactly the complete chunk set of one build pass: never a
\* mixture of two passes, never a part of one.
C8_NeverPartiallyMerged ==
    \/ coll.entries = {}
    \/ \E v \in 1..Len(Directories) : coll.entries = BuildPass(v)

\* C9: when a build_index() that collected n chunks returns success, the ids in
\* the collection are exactly chunk_0 .. chunk_(n-1), and chunk_i is the entry of
\* the i-th chunk collected in file, page, chunk order.
C9_SequentialIds ==
    [][\A b \in Builders :
          (pc[b] = "count_new" /\ pc'[b] = "done" /\ report'[b].success) =>
              /\ StoreIds(coll') = {ChunkId(i - 1) : i \in 1..Len(job[b].all_texts)}
              /\ \A i \in 1..Len(job[b].all_texts) :
                    \E e \in coll'.entries :
                        /\ e.id = ChunkId(i - 1)
                        /\ e.document = job[b].all_texts[i]
                        /\ e.metadata = job[b].all_metadatas[i]]_vars

\* the report of a failure that lists the first n of the files call b read
ReportsFirst(b, n) ==
    /\ pc[b] = "done"
    /\ "success" \in DOMAIN report[b]
    /\ report[b].success = FALSE
    /\ "files_processed" \in DOMAIN report[b]
    /\ Len(report[b].files_processed) = n
    /\ \A i \in 1..n : report[b].files_processed[i].filename = basename(FilesRead(b)[i])

\* C10: when the extraction of the j-th file in sorted order fails, build_index()
\* returns a failure whose files_processed lists the j-1 files before it, in
\* order; the files after it are not opened, and neither the embedding model nor
\* the store is used.
C10_ExtractionErrorAborts ==
    \A b \in Builders :
        (pc[b] \in {"done", "raised"} /\ pred[b].docs # 0 /\ FailsAt(b) # {}) =>
            /\ ReportsFirst(b, MinOf(FailsAt(b)) - 1)
            /\ opened[b] = SubSeq(FilesRead(b), 1, MinOf(FailsAt(b)))
            /\ touched[b] = {}

\* C10 as amended: when the extraction of the j-th file in sorted order fails
\* with an Exception, build_index() returns a failure whose files_processed
\* lists the j-1 files before it, in order; when it fails with what is no
\* Exception, that leaves build_index and there is no report; either way the
\* files after it are not opened, and neither the embedding model nor the store
\* is used.
C10_ExtractionExceptionAborts ==
    \A b \in Builders :
        (pc[b] \in {"done", "raised"} /\ pred[b].docs # 0 /\ FailsAt(b) # {}) =>
            /\ IF MinOf(FailsAt(b)) = pred[b].intr
               THEN pc[b] = "raised" /\ report[b] = [raised |-> "BaseException"]
               ELSE ReportsFirst(b, MinOf(FailsAt(b)) - 1)
            /\ opened[b] = SubSeq(FilesRead(b), 1, MinOf(FailsAt(b)))
            /\ touched[b] = {}

\* the second of three files failed: one file is reported, two were opened, and
\* the collection another build filled is as it was
C10_Witness ==
    \E b \in Builders :
        /\ Failed(b)
        /\ FailsAt(b) = {2}
        /\ pred[b].intr = 0
        /\ Len(FilesRead(b)) = 3
        /\ Len(report[b].files_processed) = 1
        /\ Len(opened[b]) = 2
        /\ StoreCount(coll) > 0

----------------------------------------------------------------------------
(* Claims about POST /search *)

\* the step is a POST /search that the store answered
Searched == n_searches' = n_searches + 1 /\ request'.raises = "None"

\* C6: for every query and every k in 1..20, POST /search returns at most k
\* results, exactly min(k, size of the collection) of them, the nearest ones in
\* the order of the store with non-decreasing score, and total_results is the
\* length of the list.
C6_AtMostKSorted ==
    [][Searched =>
          LET rs == response'.results
              size == StoreCount(coll)
              qe == Encode(request'.query)
          IN  /\ request'.k \in KMin..KMax
              /\ response'.status = 200
              /\ Len(rs) <= request'.k
              /\ Len(rs) = IF request'.k < size THEN request'.k ELSE size
              /\ \A i \in 1..(Len(rs) - 1) : rs[i].score <= rs[i + 1].score
              /\ \A i, j \in 1..Len(rs) : i < j => rs[i].id # rs[j].id
              /\ \A i \in 1..Len(rs) :
                    \E e \in coll.entries :
                        /\ e.id = rs[i].id
                        /\ e.document = rs[i].text
                        /\ rs[i].score = Distance(qe, e.embedding)
              /\ \A e \in coll.entries :
                    (\A i \in 1..Len(rs) : rs[i].id # e.id) =>
                        \A i \in 1..Len(rs) : rs[i].score <= Distance(qe, e.embedding)
              /\ response'.total_results = Len(rs)]_vars

\* a search for k = 2 in a collection of three chunks answered with two hits
C6_Witness ==
    /\ n_searches = 1
    /\ request.raises = "None"
    /\ request.k = 2
    /\ StoreCount(coll) = 3
    /\ response.status = 200
    /\ Len(response.results) = 2
    /\ response.results[1].score < response.results[2].score

\* C7: a search in an empty collection, one emptied by the delete step of a
\* rebuild included, succeeds with no results and total_results = 0, and is not
\* an HTTP 500.
C7_EmptyCollectionSearch ==
    [][(Searched /\ coll.entries = {}) =>
          /\ response'.status = 200
          /\ response'.results = <<>>
          /\ response'.total_results = 0]_vars

\* a search served between the delete and the insert of a rebuild
C7_Witness ==
    /\ n_searches = 1
    /\ request.raises = "None"
    /\ pc["b1"] = "add"
    /\ old_count["b1"] > 0
    /\ coll.entries = {}
    /\ response.status = 200
    /\ response.results = <<>>

====
